---- MODULE Spec2Model ----
(***************************************************************************)
(* Model of scrapy_time_machine/storages.py: the DBM snapshot storage      *)
(* (DbmTimeMachineStorage) and its S3-synced subclass                      *)
(* (S3TimeMachineStorage).  One storage object is alive at a time; the     *)
(* local filesystem and the S3 bucket outlive it.                          *)
(*                                                                         *)
(* Strings that the code parses or formats (uris, paths) are sequences of  *)
(* tokens, so that urlparse, lstrip, dirname, basename, join and the       *)
(* %-substitution are computed.  The dbm module is modelled with a backend *)
(* that keeps the database in the single file it was opened on and writes  *)
(* through to it (dbm.gnu, the default backend of CPython on Linux).       *)
(***************************************************************************)
EXTENDS Integers, Sequences, FiniteSets, TLC

\* ---------------------------------------------------------------- bounds
MaxSessions == 2      \* storage objects constructed in one behaviour
MaxCloseCalls == 2    \* close_spider calls on one storage object

\* ------------------------------------------------------- python values
None == [kind |-> "None"]

Raise(exc) == [kind |-> "raise", exc |-> exc]

\* a str: the sequence of its tokens
Str(tokens) == [kind |-> "str", s |-> tokens]

\* ------------------------------------------------- requests, responses
\* A request is what request_fingerprint looks at plus one header it ignores.
Requests ==
    { [method |-> "GET", url |-> "u1", hdr |-> "x"],
      [method |-> "GET", url |-> "u1", hdr |-> "y"],
      [method |-> "GET", url |-> "u2", hdr |-> "x"] }

\* scrapy.utils.request.request_fingerprint: a digest of method, url, body.
request_fingerprint(request) == <<"sha1", request.method, request.url>>

_request_key(request) == request_fingerprint(request)

Fingerprints == { _request_key(r) : r \in Requests }

\* scrapy.http.Headers keeps title-cased keys and lists of values.
normkey(k) ==
    CASE k = "content-type" -> "Content-Type"
      [] k = "Content-Type" -> "Content-Type"
      [] k = "server" -> "Server"
      [] OTHER -> k

Headers(d) == [kind |-> "Headers",
               items |-> [i \in 1..Len(d) |-> <<normkey(d[i][1]), d[i][2]>>]]

\* dict(headers): the stored key -> list-of-values pairs.
dict(headers) == headers.items

HtmlHeaders == Headers(<< <<"content-type", <<"text/html">> >> >>)
BareHeaders == Headers(<< <<"server", <<"nginx", "v1">> >> >>)

\* The responses handed to store_response.
RespA == [kind |-> "Response", cls |-> "HtmlResponse", status |-> 200,
          url |-> "u1", headers |-> HtmlHeaders, body |-> <<1, 1>>]
RespB == [kind |-> "Response", cls |-> "TextResponse", status |-> 404,
          url |-> "u2", headers |-> BareHeaders, body |-> <<0>>]
Responses == {RespA, RespB}

\* responsetypes.from_args(headers=, url=): the class by Content-Type only.
from_args(headers, url) ==
    IF \E i \in 1..Len(headers.items) :
          headers.items[i] = <<"Content-Type", <<"text/html">> >>
    THEN "HtmlResponse" ELSE "Response"

\* ------------------------------------------------------------- codec
RECURSIVE SumSeq(_)
SumSeq(s) == IF s = <<>> THEN 0 ELSE s[1] + SumSeq(Tail(s))

Crc(bytes) == SumSeq(bytes) % 2

\* gzip.compress: magic, payload, checksum trailer.
gzip_compress(bytes) == <<"1f8b">> \o bytes \o <<Crc(bytes)>>

GzipOk(z) ==
    /\ Len(z) >= 2
    /\ z[1] = "1f8b"
    /\ Crc(SubSeq(z, 2, Len(z) - 1)) = z[Len(z)]

\* a decompressor that takes the checksum trailer for payload
gzip_decompress_keeps_trailer(z) == SubSeq(z, 2, Len(z))

\* gzip.decompress of a well-formed member (BadGzipFile / EOFError otherwise)
gzip_decompress(z) == SubSeq(z, 2, Len(z) - 1)

\* pickle.dumps(data, protocol=2) of the four-key dict.
pickle_dumps(data) ==
    <<"PROTO2", data.status, data.url, data.headers, data.body, "STOP">>

PickleOk(p) == Len(p) = 6 /\ p[1] = "PROTO2" /\ p[6] = "STOP"

pickle_loads(p) ==
    [kind |-> "dict", status |-> p[2], url |-> p[3], headers |-> p[4],
     body |-> p[5]]

\* ------------------------------------------------------------ strings
\* "%s_data" % key, "%s_time" % key
DataKey(key) == <<key, "_data">>
TimeKey(key) == <<key, "_time">>

\* str(time())
TimeStr(t) == <<"str", t>>

Placeholder == "%(name)s"
Names == {"p"}

\* uri % uri_params
Subst(uri, uri_params) ==
    Str([i \in 1..Len(uri.s) |->
            IF uri.s[i] = Placeholder THEN uri_params.name ELSE uri.s[i]])

\* index of the first "/" token of s, Len(s)+1 when there is none
FirstSlash(s) ==
    IF \E i \in 1..Len(s) : s[i] = "/"
    THEN CHOOSE i \in 1..Len(s) :
            s[i] = "/" /\ \A j \in 1..(i - 1) : s[j] # "/"
    ELSE Len(s) + 1

\* index of the last "/" token of s, 0 when there is none
LastSlash(s) ==
    IF \E i \in 1..Len(s) : s[i] = "/"
    THEN CHOOSE i \in 1..Len(s) :
            s[i] = "/" /\ \A j \in (i + 1)..Len(s) : s[j] # "/"
    ELSE 0

\* urllib.parse.urlparse: (scheme, netloc, path)
urlparse(uri) ==
    IF uri = None THEN [scheme |-> "", netloc |-> <<>>, path |-> <<>>]
    ELSE IF Len(uri.s) >= 2 /\ uri.s[2] = "://"
    THEN LET rest == SubSeq(uri.s, 3, Len(uri.s))
             cut == FirstSlash(rest)
         IN [scheme |-> uri.s[1],
             netloc |-> SubSeq(rest, 1, cut - 1),
             path |-> SubSeq(rest, cut, Len(rest))]
    ELSE [scheme |-> "", netloc |-> <<>>, path |-> uri.s]

\* str.lstrip('/')
RECURSIVE lstrip(_)
lstrip(s) == IF s # <<>> /\ s[1] = "/" THEN lstrip(Tail(s)) ELSE s

\* w3lib.url.file_uri_to_path
file_uri_to_path(uri) == urlparse(uri).path

dirname(p) ==
    LET i == LastSlash(p)
        head == SubSeq(p, 1, i)
    IN IF head # <<>> /\ lstrip(head) # <<>> THEN SubSeq(p, 1, i - 1) ELSE head

basename(p) == SubSeq(p, LastSlash(p) + 1, Len(p))

join(a, b) ==
    IF b # <<>> /\ b[1] = "/" THEN b
    ELSE IF a = <<>> \/ a[Len(a)] = "/" THEN a \o b
    ELSE a \o <<"/">> \o b

\* scrapy.utils.project.data_path outside a project: relative paths go
\* under .scrapy
data_path(path) == IF path # <<>> /\ path[1] = "/" THEN path
                   ELSE join(<<".scrapy">>, path)

\* ---------------------------------------------------------------- dbm
\* A file is either plain bytes (isdb = FALSE) or a dbm database holding a
\* key -> value map.
EmptyFile == [isdb |-> FALSE, map |-> <<>>]
EmptyDb == [isdb |-> TRUE, map |-> <<>>]

\* an insert that leaves an existing key alone
DbPut_keeps_old(m, k, v) ==
    [x \in (DOMAIN m) \cup {k} |-> IF x \in DOMAIN m THEN m[x] ELSE v]

\* db[k] = v
DbPut(m, k, v) == [x \in (DOMAIN m) \cup {k} |-> IF x = k THEN v ELSE m[x]]

\* an open that starts a new database whatever the flag
dbm_open_truncates(files, name, flag) ==
    [x \in (DOMAIN files) \cup {name} |->
        IF x = name THEN EmptyDb ELSE files[x]]

\* dbm.open(name, flag) raises "db type could not be determined": without
\* "n" the type of an existing file is looked up first
dbm_open_raises(files, name, flag) ==
    flag # "n" /\ name \in DOMAIN files /\ ~files[name].isdb

\* dbm.open(name, flag): the filesystem afterwards.  "c" creates the
\* database when the file is missing, "n" always creates an empty one.
dbm_open(files, name, flag) ==
    IF flag = "n" \/ name \notin DOMAIN files
    THEN [x \in (DOMAIN files) \cup {name} |->
            IF x = name THEN EmptyDb ELSE files[x]]
    ELSE files

DbHandle(name) == [kind |-> "db", name |-> name, closed |-> FALSE]

\* ------------------------------------------------- settings and inputs
LocalUris == { Str(<<"file", "://", "/", "d", "/", Placeholder>>),
               Str(<<Placeholder>>) }

\* values of the TIME_MACHINE_URI setting
S3Uris == { Str(<<"s3", "://", "b1", "/", Placeholder>>),
            Str(<<"s3", "://", "/", Placeholder>>),
            Str(<<"s3", "://", "b1">>) }

UriParams == [name : Names]

Unset == [kind |-> "unset"]

\* DbmTimeMachineStorage.__init__
DbmInit == [cls |-> "dbm", db |-> None, snapshot_uri |-> None,
            s3_uri |-> None, retrieve_mode |-> FALSE,
            snapshot_mode |-> FALSE, path_to_local_file |-> Unset]

\* S3TimeMachineStorage.__init__
S3Init(uri, retrieve, snapshot) ==
    [cls |-> "s3", db |-> None, snapshot_uri |-> None,
     s3_uri |-> uri, retrieve_mode |-> retrieve,
     snapshot_mode |-> snapshot, path_to_local_file |-> Unset]

NewObjects == {DbmInit} \cup
              { S3Init(u, r, s) : u \in S3Uris, r \in BOOLEAN, s \in BOOLEAN }

\* S3TimeMachineStorage.get_netloc_and_path
NetlocPathRaises(s3_uri) ==
    LET u == urlparse(s3_uri)
    IN u.scheme # "s3" \/ u.netloc = <<>> \/ u.path = <<>>

get_netloc_and_path(s3_uri) ==
    LET u == urlparse(s3_uri) IN <<u.netloc, u.path>>

\* the (Bucket, Key) pair both transfers address
S3Object(s3_uri) ==
    LET np == get_netloc_and_path(s3_uri) IN <<np[1], lstrip(np[2])>>

\* an upload addressed by the location template instead of the resolved
\* location
UploadTarget_template(obj) == S3Object(obj.s3_uri)

\* _finish_time_machine, lines 159-161: where upload_file writes
UploadTarget(obj) == S3Object(obj.snapshot_uri)

\* _prepare_time_machine, lines 145-146: where download_fileobj reads
DownloadSource(obj) == S3Object(obj.snapshot_uri)

\* --------------------------------------------------------------- state
VARIABLES
    self,       \* the storage object: its attributes
    fs,         \* local filesystem: file name -> contents
    s3,         \* the bucket(s): (Bucket, Key) -> contents
    sessions,   \* storage objects constructed so far
    ses,        \* history of the calls made on the current object
    prev,       \* the last upload of the previous object, or None
    everStored, \* local path -> fingerprints ever stored in that file
    result      \* the last call on the current object and its outcome

vars == <<self, fs, s3, sessions, ses, prev, everStored, result>>

\* time(): the stored timestamp is only ever tested for presence, so all
\* instants are one value
time == "now"

NoStores == [f \in Fingerprints |-> <<>>]

\* history of a freshly constructed object
SesInit == [opened |-> "no", closeCalls |-> 0, closedOk |-> FALSE,
            uploads |-> 0,
            downloads |-> 0, dbCloses |-> 0, staged |-> 0,
            stored |-> NoStores, torn |-> {}, lifetime |-> {},
            downloadedFrom |-> None, uploaded |-> None]

Result(op, arg, out) == [op |-> op, arg |-> arg, out |-> out]

Constructed == Result("__init__", None, None)

\* the last two responses stored under a fingerprint
Remember(hist, response) ==
    IF Len(hist) < 2 THEN Append(hist, response)
    ELSE <<hist[2], response>>

\* A snapshot left in the bucket by an earlier crawl: one response stored
\* through store_response.
SeedKey == _request_key(CHOOSE r \in Requests : r.url = "u1" /\ r.hdr = "x")

SeedDb ==
    [isdb |-> TRUE,
     map |-> DbPut(DbPut(<<>>, DataKey(SeedKey),
                         pickle_dumps([status |-> RespA.status,
                                       url |-> RespA.url,
                                       headers |-> dict(RespA.headers),
                                       body |-> gzip_compress(RespA.body)])),
                   TimeKey(SeedKey), TimeStr(time))]

OtherKey == _request_key(CHOOSE r \in Requests : r.url = "u2")

\* A snapshot damaged in storage: both timestamp keys are there, the
\* payload of one fingerprint is a truncated pickle, the payload of the
\* other unpickles but its gzip member fails the checksum.
CorruptDb ==
    [isdb |-> TRUE,
     map |-> DbPut(DbPut(DbPut(DbPut(<<>>,
                 DataKey(SeedKey), <<"PROTO2", RespA.status>>),
                 TimeKey(SeedKey), TimeStr(time)),
                 DataKey(OtherKey),
                 pickle_dumps([status |-> RespB.status,
                               url |-> RespB.url,
                               headers |-> dict(RespB.headers),
                               body |-> <<"1f8b", 0, 1>>])),
                 TimeKey(OtherKey), TimeStr(time))]

\* A snapshot holding a payload without its timestamp: a payload that
\* does not unpickle.
OrphanDb ==
    [isdb |-> TRUE,
     map |-> DbPut(<<>>, DataKey(OtherKey), <<"PROTO2", RespB.status>>)]

SeedObject == S3Object(Str(<<"s3", "://", "b1", "/", "p">>))

\* the bucket is empty, or holds under the key a snapshot or an object
\* that is no database at all
InitialBuckets == { <<>> } \cup
                  { [o \in {SeedObject} |-> blob] :
                        blob \in {SeedDb, CorruptDb, OrphanDb, EmptyFile} }

InitWith(objects) ==
    /\ self \in objects
    /\ fs = <<>>
    /\ s3 \in InitialBuckets
    /\ sessions = 1
    /\ ses = SesInit
    /\ prev = None
    /\ everStored = <<>>
    /\ result = Constructed

\* -------------------------------------------- the per-request methods
\* a store that writes the timestamp where the payload belongs
store_payload_marker_first(m, request, response) ==
    DbPut(m, TimeKey(_request_key(request)), TimeStr(time))

\* store_response, lines 79-87: the database after the payload write
store_payload(m, request, response) ==
    LET key == _request_key(request)
        data == pickle_dumps([status |-> response.status,
                              url |-> response.url,
                              headers |-> dict(response.headers),
                              body |-> gzip_compress(response.body)])
    IN DbPut(m, DataKey(key), data)

\* store_response, line 88: the database after the timestamp write
store_marker(m, request, t) ==
    DbPut(m, TimeKey(_request_key(request)), TimeStr(t))

\* a store that files the timestamp and loses the payload
store_response_marker_only(m, request, response, t) ==
    store_marker(m, request, t)

\* DbmTimeMachineStorage.store_response on an open database holding m,
\* with time() = t: the database afterwards.
store_response(m, request, response, t) ==
    store_marker(store_payload(m, request, response), request, t)

\* a reader that takes a payload it cannot unpickle for a miss
_read_data_miss_on_error(m, request) ==
    LET key == _request_key(request)
    IN IF TimeKey(key) \notin DOMAIN m THEN None
       ELSE IF DataKey(key) \notin DOMAIN m THEN None
       ELSE IF ~PickleOk(m[DataKey(key)]) THEN None
       ELSE pickle_loads(m[DataKey(key)])

\* a reader that fetches and unpickles the payload before it looks for the
\* timestamp
_read_data_payload_first(m, request) ==
    LET key == _request_key(request)
    IN IF DataKey(key) \in DOMAIN m /\ ~PickleOk(m[DataKey(key)])
       THEN Raise("UnpicklingError")
       ELSE IF TimeKey(key) \notin DOMAIN m THEN None
       ELSE IF DataKey(key) \notin DOMAIN m THEN Raise("KeyError")
       ELSE pickle_loads(m[DataKey(key)])

\* DbmTimeMachineStorage._read_data on an open database holding m
_read_data(m, request) ==
    LET key == _request_key(request)
        tkey == TimeKey(key)
    IN IF tkey \notin DOMAIN m THEN None
       ELSE IF DataKey(key) \notin DOMAIN m THEN Raise("KeyError")
       ELSE IF ~PickleOk(m[DataKey(key)]) THEN Raise("UnpicklingError")
       ELSE pickle_loads(m[DataKey(key)])

\* DbmTimeMachineStorage.retrieve_response on an open database holding m
retrieve_response(m, request) ==
    LET data == _read_data(m, request)
    IN IF data = None THEN None
       ELSE IF data.kind = "raise" THEN data
       ELSE IF ~GzipOk(data.body) THEN Raise("BadGzipFile")
       ELSE LET url == data.url
                status == data.status
                headers == Headers(data.headers)
                body == gzip_decompress(data.body)
                respcls == from_args(headers, url)
            IN [kind |-> "Response", cls |-> respcls, status |-> status,
                url |-> url, headers |-> headers, body |-> body]

\* The engine hands requests to the storage between a successful
\* open_spider and the first close_spider.
InSession == ses.opened = "ok" /\ ses.closeCalls = 0

\* the key -> value map behind self.db
DbMap == fs[self.db.name].map

WriteFile(files, name, contents) ==
    [x \in (DOMAIN files) \cup {name} |->
        IF x = name THEN contents ELSE files[x]]

StoreResponse(request, response) ==
    LET key == _request_key(request) IN
    /\ InSession
    /\ fs' = WriteFile(fs, self.db.name,
                [isdb |-> TRUE,
                 map |-> store_response(DbMap, request, response, time)])
    /\ ses' = [ses EXCEPT
                 !.stored[key] = Remember(ses.stored[key], response),
                 !.torn = ses.torn \ {<<self.db.name, key>>},
                 !.lifetime = ses.lifetime \cup {key}]
    /\ everStored' =
         IF self.cls = "dbm"
         THEN [x \in (DOMAIN everStored) \cup {self.db.name} |->
                 IF x = self.db.name THEN ses.lifetime \cup {key}
                 ELSE everStored[x]]
         ELSE everStored
    /\ result' = Result("store_response", None, None)
    /\ UNCHANGED <<self, s3, sessions, prev>>

\* the outcome of a call the process did not survive
Killed == [kind |-> "killed"]

\* The process is killed inside store_response, between line 87 and line
\* 88: the payload is written, the timestamp is not.  The object and the
\* history of its calls are gone with the process; what is kept is which
\* payloads were left without their timestamp.
StoreInterrupted(request, response) ==
    LET key == _request_key(request) IN
    /\ InSession
    /\ fs' = WriteFile(fs, self.db.name,
                [isdb |-> TRUE,
                 map |-> store_payload(DbMap, request, response)])
    /\ ses' = [SesInit EXCEPT
                 !.opened = "killed",
                 !.torn = IF TimeKey(key) \in DOMAIN DbMap THEN ses.torn
                          ELSE ses.torn \cup {<<self.db.name, key>>}]
    /\ result' = Result("store_response", key, Killed)
    /\ UNCHANGED <<self, s3, sessions, prev, everStored>>

RetrieveResponse(request) ==
    /\ InSession
    /\ result' = Result("retrieve_response", _request_key(request),
                        retrieve_response(DbMap, request))
    /\ UNCHANGED <<self, fs, s3, sessions, ses, prev, everStored>>

\* ------------------------------------------------------------ set_uri
\* DbmTimeMachineStorage.set_uri: the resolved local path
DbmSetUri(uri, uri_params) ==
    LET snapshot_uri == file_uri_to_path(Subst(uri, uri_params))
        path == data_path(dirname(snapshot_uri))
        db_name == basename(snapshot_uri)
    IN Str(join(path, db_name))

\* S3TimeMachineStorage.set_uri: the argument uri is not used
S3SetUri(uri, uri_params) == Subst(self.s3_uri, uri_params)

\* The owner of the storage resolves the location when it starts a
\* session: set_uri is called before open_spider and not after it.
CanSetUri == ses.opened = "no" /\ ses.closeCalls = 0

SetUri(uri, uri_params) ==
    /\ CanSetUri
    /\ self' = [self EXCEPT !.snapshot_uri =
                    IF self.cls = "dbm" THEN DbmSetUri(uri, uri_params)
                    ELSE S3SetUri(uri, uri_params)]
    /\ result' = Result("set_uri", None, None)
    /\ UNCHANGED <<fs, s3, sessions, ses, prev, everStored>>

\* --------------------------------------------------------- open_spider
\* open_spider is called once, before any close_spider
CanOpen == ses.opened = "no" /\ ses.closeCalls = 0

\* a check that only catches the empty string
UriFalsy_empty_only(obj) == obj.snapshot_uri = Str(<<>>)

\* "not self.snapshot_uri"
UriFalsy(obj) == IF obj.snapshot_uri = None THEN TRUE
                 ELSE obj.snapshot_uri.s = <<>>

\* DbmTimeMachineStorage.open_spider, line 44
DbmOpenUnconfigured ==
    /\ CanOpen
    /\ self.cls = "dbm"
    /\ UriFalsy(self)
    /\ ses' = [ses EXCEPT !.opened = "failed"]
    /\ result' = Result("open_spider", None, Raise("CloseSpider"))
    /\ UNCHANGED <<self, fs, s3, sessions, prev, everStored>>

\* DbmTimeMachineStorage.open_spider, line 46
DbmOpen ==
    /\ CanOpen
    /\ self.cls = "dbm"
    /\ ~UriFalsy(self)
    /\ fs' = dbm_open(fs, self.snapshot_uri, "c")
    /\ self' = [self EXCEPT !.db = DbHandle(self.snapshot_uri)]
    /\ ses' = [ses EXCEPT
                 !.opened = "ok",
                 !.lifetime = IF self.snapshot_uri \in DOMAIN everStored
                              THEN everStored[self.snapshot_uri] ELSE {}]
    /\ result' = Result("open_spider", None, None)
    /\ UNCHANGED <<s3, sessions, prev, everStored>>

\* NamedTemporaryFile(mode="wb", suffix=".db", delete=False): a name no
\* earlier object was given
TempName == Str(<<"/tmp/tmp", sessions, ".db">>)

Tempfile == [kind |-> "tempfile", name |-> TempName, closed |-> FALSE]

\* fingerprints a snapshot holds something for
Entries(contents) ==
    { f \in Fingerprints :
        TimeKey(f) \in DOMAIN contents.map
        \/ DataKey(f) \in DOMAIN contents.map }

\* a prepare step that downloads whatever the flag says
Hydrates_always(obj) == TRUE

\* _prepare_time_machine, line 143: "if self.retrieve_mode:"
Hydrates(obj) == obj.retrieve_mode

\* _prepare_time_machine, retrieve_mode off: lines 142, 149, 152
S3OpenFresh ==
    /\ CanOpen
    /\ self.cls = "s3"
    /\ ~Hydrates(self)
    /\ fs' = dbm_open(WriteFile(fs, TempName, EmptyFile), TempName, "n")
    /\ self' = [self EXCEPT !.db = DbHandle(TempName),
                            !.path_to_local_file = Tempfile]
    /\ ses' = [ses EXCEPT !.opened = "ok", !.staged = ses.staged + 1,
                          !.lifetime = {}]
    /\ result' = Result("open_spider", None, None)
    /\ UNCHANGED <<s3, sessions, prev, everStored>>

\* _prepare_time_machine, retrieve_mode on, line 145 raises
S3OpenBadLocation ==
    /\ CanOpen
    /\ self.cls = "s3"
    /\ Hydrates(self)
    /\ NetlocPathRaises(self.snapshot_uri)
    /\ fs' = WriteFile(fs, TempName, EmptyFile)
    /\ ses' = [ses EXCEPT !.opened = "failed", !.staged = ses.staged + 1]
    /\ result' = Result("open_spider", None, Raise("ValueError"))
    /\ UNCHANGED <<self, s3, sessions, prev, everStored>>

\* a prepare step that asks the client a second time before it gives up
S3OpenDownloadFails_retried ==
    /\ CanOpen
    /\ self.cls = "s3"
    /\ Hydrates(self)
    /\ ~NetlocPathRaises(self.snapshot_uri)
    /\ fs' = WriteFile(fs, TempName, EmptyFile)
    /\ ses' = [ses EXCEPT !.opened = "failed", !.staged = ses.staged + 1,
                          !.downloads = ses.downloads + 2]
    /\ result' = Result("open_spider", None, Raise("ClientError"))
    /\ UNCHANGED <<self, s3, sessions, prev, everStored>>

\* _prepare_time_machine, retrieve_mode on, download_fileobj raises: the
\* object is missing or the transfer fails
S3OpenDownloadFails ==
    /\ CanOpen
    /\ self.cls = "s3"
    /\ Hydrates(self)
    /\ ~NetlocPathRaises(self.snapshot_uri)
    /\ fs' = WriteFile(fs, TempName, EmptyFile)
    /\ ses' = [ses EXCEPT !.opened = "failed", !.staged = ses.staged + 1,
                          !.downloads = ses.downloads + 1]
    /\ result' = Result("open_spider", None, Raise("ClientError"))
    /\ UNCHANGED <<self, s3, sessions, prev, everStored>>

\* a download that leaves an empty database in the file
download_fileobj_empty(object, files, name) ==
    WriteFile(files, name, EmptyDb)

\* s3_client.download_fileobj(Bucket, Key, Fileobj): the filesystem after
\* the object was written into the file
download_fileobj(object, files, name) == WriteFile(files, name, s3[object])

\* _prepare_time_machine, retrieve_mode on, line 147 raises: what was
\* downloaded is not a database
S3OpenNotADb ==
    /\ CanOpen
    /\ self.cls = "s3"
    /\ Hydrates(self)
    /\ ~NetlocPathRaises(self.snapshot_uri)
    /\ DownloadSource(self) \in DOMAIN s3
    /\ dbm_open_raises(download_fileobj(DownloadSource(self), fs, TempName),
                       TempName, "c")
    /\ fs' = download_fileobj(DownloadSource(self), fs, TempName)
    /\ ses' = [ses EXCEPT !.opened = "failed", !.staged = ses.staged + 1,
                          !.downloads = ses.downloads + 1]
    /\ result' = Result("open_spider", None, Raise("dbm.error"))
    /\ UNCHANGED <<self, s3, sessions, prev, everStored>>

\* _prepare_time_machine, retrieve_mode on: lines 142-147, 152
S3OpenHydrate ==
    /\ CanOpen
    /\ self.cls = "s3"
    /\ Hydrates(self)
    /\ ~NetlocPathRaises(self.snapshot_uri)
    /\ DownloadSource(self) \in DOMAIN s3
    /\ ~dbm_open_raises(download_fileobj(DownloadSource(self), fs, TempName),
                        TempName, "c")
    /\ fs' = dbm_open(download_fileobj(DownloadSource(self), fs, TempName),
                      TempName, "c")
    /\ self' = [self EXCEPT !.db = DbHandle(TempName),
                            !.path_to_local_file = Tempfile]
    /\ ses' = [ses EXCEPT
                 !.opened = "ok", !.staged = ses.staged + 1,
                 !.downloads = ses.downloads + 1,
                 !.downloadedFrom = DownloadSource(self),
                 !.lifetime = IF self.retrieve_mode
                              THEN Entries(s3[DownloadSource(self)])
                              ELSE {}]
    /\ result' = Result("open_spider", None, None)
    /\ UNCHANGED <<s3, sessions, prev, everStored>>

OpenSpider ==
    \/ DbmOpenUnconfigured
    \/ DbmOpen
    \/ S3OpenFresh
    \/ S3OpenBadLocation
    \/ S3OpenDownloadFails
    \/ S3OpenNotADb
    \/ S3OpenHydrate

\* -------------------------------------------------------- close_spider
\* "if self.db:" raises on a closed database: bool() asks for its length
BoolRaises(db) == db # None /\ db.closed

\* "if self.db:" on None or an open database: true iff it holds a key
Truthy(db, files) == db # None /\ DOMAIN files[db.name].map # {}

\* close_spider, lines 58-59: the object after "if self.db: self.db.close()"
CloseDb(obj, files) ==
    IF Truthy(obj.db, files) THEN [obj EXCEPT !.db.closed = TRUE] ELSE obj

\* a finish step that uploads whatever the flag says
Snapshots_always(obj) == obj.cls = "s3"

\* _finish_time_machine, line 155 (the base class does nothing)
Snapshots(obj) == obj.cls = "s3" /\ obj.snapshot_mode

CanClose == ses.opened # "killed" /\ ses.closeCalls < MaxCloseCalls

ClosedOnce == [ses EXCEPT
    !.closeCalls = ses.closeCalls + 1,
    !.dbCloses = ses.dbCloses + (IF Truthy(self.db, fs) THEN 1 ELSE 0)]

\* line 58 raises
CloseBoolRaises ==
    /\ CanClose
    /\ BoolRaises(self.db)
    /\ ses' = [ses EXCEPT !.closeCalls = ses.closeCalls + 1]
    /\ result' = Result("close_spider", None, Raise("dbm.error"))
    /\ UNCHANGED <<self, fs, s3, sessions, prev, everStored>>

\* nothing to upload: the base class, or snapshot_mode off
CloseNoSnapshot ==
    /\ CanClose
    /\ ~BoolRaises(self.db)
    /\ ~Snapshots(self)
    /\ self' = CloseDb(self, fs)
    /\ ses' = [ClosedOnce EXCEPT !.closedOk = TRUE]
    /\ result' = Result("close_spider", None, None)
    /\ UNCHANGED <<fs, s3, sessions, prev, everStored>>

\* line 157: the attribute was never set
CloseNoTempfile ==
    /\ CanClose
    /\ ~BoolRaises(self.db)
    /\ Snapshots(self)
    /\ self.path_to_local_file = Unset
    /\ self' = CloseDb(self, fs)
    /\ ses' = ClosedOnce
    /\ result' = Result("close_spider", None, Raise("AttributeError"))
    /\ UNCHANGED <<fs, s3, sessions, prev, everStored>>

\* line 157: flush of a closed file
CloseFlushRaises ==
    /\ CanClose
    /\ ~BoolRaises(self.db)
    /\ Snapshots(self)
    /\ self.path_to_local_file # Unset
    /\ self.path_to_local_file.closed
    /\ self' = CloseDb(self, fs)
    /\ ses' = ClosedOnce
    /\ result' = Result("close_spider", None, Raise("ValueError: flush"))
    /\ UNCHANGED <<fs, s3, sessions, prev, everStored>>

CanUpload ==
    /\ CanClose
    /\ ~BoolRaises(self.db)
    /\ Snapshots(self)
    /\ self.path_to_local_file # Unset
    /\ ~self.path_to_local_file.closed

\* line 159 raises
CloseBadLocation ==
    /\ CanUpload
    /\ NetlocPathRaises(self.snapshot_uri)
    /\ self' = CloseDb(self, fs)
    /\ ses' = ClosedOnce
    /\ result' = Result("close_spider", None, Raise("ValueError"))
    /\ UNCHANGED <<fs, s3, sessions, prev, everStored>>

\* line 160: upload_file raises
CloseUploadFails ==
    /\ CanUpload
    /\ ~NetlocPathRaises(self.snapshot_uri)
    /\ self' = CloseDb(self, fs)
    /\ ses' = [ClosedOnce EXCEPT !.uploads = ses.uploads + 1]
    /\ result' = Result("close_spider", None, Raise("S3UploadFailedError"))
    /\ UNCHANGED <<fs, s3, sessions, prev, everStored>>

\* an upload that never reaches the bucket
upload_file_lost(files, name, object) == s3

\* s3_client.upload_file(Filename, Bucket, Key): the bucket afterwards
upload_file(files, name, object) == WriteFile(s3, object, files[name])

\* lines 157-165 run to the end
CloseUploads ==
    /\ CanUpload
    /\ ~NetlocPathRaises(self.snapshot_uri)
    /\ s3' = upload_file(fs, self.path_to_local_file.name,
                         UploadTarget(self))
    /\ self' = [CloseDb(self, fs) EXCEPT !.path_to_local_file.closed = TRUE]
    /\ ses' = [ClosedOnce EXCEPT
                 !.closedOk = TRUE,
                 !.uploads = ses.uploads + 1,
                 !.uploaded = [to |-> UploadTarget(self),
                               retrieve_mode |-> self.retrieve_mode,
                               stored |-> [f \in Fingerprints |->
                                   IF ses.stored[f] = <<>> THEN None
                                   ELSE ses.stored[f][Len(ses.stored[f])]]]]
    /\ result' = Result("close_spider", None, None)
    /\ UNCHANGED <<fs, sessions, prev, everStored>>

CloseSpider ==
    \/ CloseBoolRaises
    \/ CloseNoSnapshot
    \/ CloseNoTempfile
    \/ CloseFlushRaises
    \/ CloseBadLocation
    \/ CloseUploadFails
    \/ CloseUploads

\* ------------------------------------------------- the next crawl run
\* The process ends and a later run of the same project constructs a new
\* storage object: the storage class and TIME_MACHINE_URI are project
\* settings, TIME_MACHINE_RETRIEVE and TIME_MACHINE_SNAPSHOT are given per
\* run.  Every NamedTemporaryFile has a fresh name, so the files earlier
\* runs left under /tmp can never be opened again and are dropped from fs.
New(retrieve, snapshot) ==
    /\ sessions < MaxSessions
    /\ sessions' = sessions + 1
    /\ self' = IF self.cls = "dbm" THEN DbmInit
               ELSE S3Init(self.s3_uri, retrieve, snapshot)
    /\ ses' = [SesInit EXCEPT
                 !.torn = { t \in ses.torn : t[1].s[1] # "/tmp/tmp" }]
    /\ prev' = ses.uploaded
    /\ result' = Constructed
    /\ fs' = [x \in { y \in DOMAIN fs :
                        IF y = None THEN TRUE ELSE y.s[1] # "/tmp/tmp" } |->
                fs[x]]
    /\ UNCHANGED <<s3, everStored>>

NewRun == \E retrieve \in BOOLEAN, snapshot \in BOOLEAN :
             New(retrieve, snapshot)

\* what the middleware calls on either class
Calls ==
    \/ NewRun
    \/ \E uri \in LocalUris, uri_params \in UriParams : SetUri(uri, uri_params)
    \/ \E request \in Requests, response \in Responses :
          StoreResponse(request, response)
    \/ \E request \in Requests, response \in Responses :
          StoreInterrupted(request, response)
    \/ \E request \in Requests : RetrieveResponse(request)
    \/ CloseBoolRaises
    \/ CloseNoSnapshot

DbmObjects == {DbmInit}
S3Objects == NewObjects \ DbmObjects

\* crawl runs with DbmTimeMachineStorage
InitDbm == InitWith(DbmObjects)
DbmSteps == DbmOpenUnconfigured \/ DbmOpen
NextDbm == Calls \/ DbmSteps
SpecDbm == InitDbm /\ [][NextDbm]_vars

\* crawl runs with S3TimeMachineStorage
InitS3 == InitWith(S3Objects)
S3Steps ==
    \/ S3OpenFresh
    \/ S3OpenBadLocation
    \/ S3OpenDownloadFails
    \/ S3OpenNotADb
    \/ S3OpenHydrate
    \/ CloseNoTempfile
    \/ CloseFlushRaises
    \/ CloseBadLocation
    \/ CloseUploadFails
    \/ CloseUploads
NextS3 == Calls \/ S3Steps
SpecS3 == InitS3 /\ [][NextS3]_vars

\* crawl runs of a project with either storage class
Init == InitWith(NewObjects)
Next == Calls \/ DbmSteps \/ S3Steps
Spec == Init /\ [][Next]_vars

\* ============================================================ properties
\* the response a retrieve hands back carries what was stored
Same(response, out) ==
    /\ out.kind = "Response"
    /\ out.status = response.status
    /\ out.url = response.url
    /\ out.headers = response.headers
    /\ out.body = response.body

Retrieved == result.op = "retrieve_response"

\* C1: a retrieve_response of a fingerprint stored earlier in the same open
\* session returns the response of the latest store_response on that
\* fingerprint: same status, url, headers and body.
C1_StoreThenRetrieve ==
    (Retrieved /\ ses.stored[result.arg] # <<>>)
        => Same(ses.stored[result.arg][Len(ses.stored[result.arg])],
                result.out)

\* a retrieve of a stored fingerprint after the other fingerprint was
\* stored as well, in an S3 session
C1_Witness ==
    /\ Retrieved
    /\ self.cls = "s3"
    /\ result.out.kind = "Response"
    /\ \A f \in Fingerprints : ses.stored[f] # <<>>

\* C2: after store(f, a) then store(f, b), retrieve(f) returns b: every
\* field is b's, and the result is not a when a differs from b.
C2_Overwrite ==
    (Retrieved /\ Len(ses.stored[result.arg]) = 2)
        => LET a == ses.stored[result.arg][1]
               b == ses.stored[result.arg][2]
           IN /\ Same(b, result.out)
              /\ a # b => ~Same(a, result.out)

C2_Witness ==
    /\ Retrieved
    /\ Len(ses.stored[result.arg]) = 2
    /\ ses.stored[result.arg][1] # ses.stored[result.arg][2]
    /\ result.out.kind = "Response"

\* C3: retrieve_response of a fingerprint that was never stored in this
\* store's lifetime returns None: a local file no session stored it in, a
\* staged store opened with retrieve_mode off, a hydrated store whose blob
\* has no entry for it.
C3_Miss ==
    (Retrieved /\ result.arg \notin ses.lifetime) => result.out = None

\* retrieve_mode off while the bucket holds an entry for the fingerprint
C3_Witness ==
    /\ Retrieved
    /\ self.cls = "s3"
    /\ ~self.retrieve_mode
    /\ ~NetlocPathRaises(self.snapshot_uri)
    /\ S3Object(self.snapshot_uri) \in DOMAIN s3
    /\ result.arg \in Entries(s3[S3Object(self.snapshot_uri)])
    /\ result.arg \notin ses.lifetime
    /\ result.out = None

\* C4: a session with retrieve_mode off and snapshot_mode on stores a
\* response and uploads at close; the next session, retrieve_mode on and
\* the same bucket and key, retrieves that response.
C4_RemoteRoundTrip ==
    (/\ Retrieved
     /\ self.cls = "s3"
     /\ self.retrieve_mode
     /\ prev # None
     /\ ~prev.retrieve_mode
     /\ prev.to = ses.downloadedFrom
     /\ prev.stored[result.arg] # None
     /\ ses.stored[result.arg] = <<>>)
        => Same(prev.stored[result.arg], result.out)

C4_Witness ==
    /\ Retrieved
    /\ self.cls = "s3"
    /\ self.retrieve_mode
    /\ prev # None
    /\ ~prev.retrieve_mode
    /\ prev.to = ses.downloadedFrom
    /\ prev.stored[result.arg] # None
    /\ ses.stored[result.arg] = <<>>
    /\ result.out.kind = "Response"

Closed == result.op = "close_spider"

Opened == result.op = "open_spider"

\* the resolved location names the s3 scheme but lacks a bucket or a path
PartialLocation ==
    /\ self.snapshot_uri # None
    /\ urlparse(self.snapshot_uri).scheme = "s3"
    /\ \/ urlparse(self.snapshot_uri).netloc = <<>>
       \/ urlparse(self.snapshot_uri).path = <<>>

\* C5: a close_spider that follows one which returned normally does not
\* raise, and the session uploads at most once.
C5_IdempotentClose ==
    (/\ Closed
     /\ ses.opened = "ok"
     /\ ses.closeCalls >= 2
     /\ ses.closedOk)
        => (result.out = None /\ ses.uploads <= 1)

\* C6: open_spider of the local storage with snapshot_uri unset or empty
\* raises CloseSpider, leaves db unset and creates no file.
C6_UnconfiguredRejected ==
    [][(/\ self.cls = "dbm"
        /\ (IF self.snapshot_uri = None THEN TRUE
            ELSE self.snapshot_uri.s = <<>>)
        /\ ses.opened = "no"
        /\ ses'.opened # "no")
           => (/\ result'.out = Raise("CloseSpider")
               /\ self'.db = None
               /\ fs' = fs)]_vars

C6_Witness ==
    /\ self.cls = "dbm"
    /\ Opened
    /\ result.out = Raise("CloseSpider")
    /\ self.snapshot_uri = None
    /\ self.db = None

\* C7: open_spider of the S3 storage on a location with an empty bucket or
\* an empty path raises, whatever the flags, before a staging file or a
\* database is created.
C7_PartialLocationRejected ==
    (self.cls = "s3" /\ Opened /\ PartialLocation)
        => (/\ result.out = Raise("ValueError")
            /\ ses.staged = 0
            /\ self.db = None)

\* C8: close_spider after a failed open_spider does not raise and does not
\* upload.
C8_CloseAfterFailedOpen ==
    (Closed /\ ses.opened = "failed")
        => (result.out = None /\ ses.uploads = 0)

\* C9: once close_spider of a successfully opened S3 session has returned
\* or raised, the staging file is closed.
C9_StagingReleased ==
    (self.cls = "s3" /\ Closed /\ ses.opened = "ok")
        => self.path_to_local_file.closed

\* C10: with snapshot_mode off no step of an S3 session changes the bucket,
\* and no upload is attempted.
C10_NoUploadWithoutRecord ==
    [][(self.cls = "s3" /\ ~self.snapshot_mode)
          => (s3' = s3 /\ ses.uploads = 0)]_vars

\* a session that stored, with the flag off, has been closed over an
\* existing blob
C10_Witness ==
    /\ self.cls = "s3"
    /\ ~self.snapshot_mode
    /\ Closed
    /\ result.out = None
    /\ ses.opened = "ok"
    /\ \E f \in Fingerprints : ses.stored[f] # <<>>
    /\ s3 # <<>>

\* the timestamp of f is there and its payload does not unpickle or does
\* not decompress
Corrupt(m, f) ==
    /\ TimeKey(f) \in DOMAIN m
    /\ DataKey(f) \in DOMAIN m
    /\ \/ ~PickleOk(m[DataKey(f)])
       \/ ~GzipOk(pickle_loads(m[DataKey(f)]).body)

\* C11: retrieve_response of a fingerprint whose timestamp is present and
\* whose payload is truncated or has a corrupt gzip body raises (it returns
\* neither None nor a response), and the call changes nothing: the object,
\* the database file, the bucket and the session are as before, so every
\* later call sees the state it would have seen without it.
C11_CorruptIsError ==
    [][(/\ InSession
        /\ result'.op = "retrieve_response"
        /\ Corrupt(DbMap, result'.arg))
           => (/\ result'.out.kind = "raise"
               /\ UNCHANGED <<self, fs, s3, ses>>
               /\ InSession')]_vars

\* a retrieve has raised on a corrupt entry after the other fingerprint
\* was stored in the same session
C11_Witness ==
    /\ Retrieved
    /\ InSession
    /\ Corrupt(DbMap, result.arg)
    /\ result.out = Raise("BadGzipFile")
    /\ \E f \in Fingerprints : f # result.arg /\ ses.stored[f] # <<>>

\* C12: store_response writes the payload key before the timestamp key: a
\* store that stops between the two writes leaves the payload key written
\* and the timestamp key as it was; and while a fingerprint never stored in
\* a database has only had such a store, retrieve_response of it on that
\* database returns None.
C12_PayloadThenMarker ==
    [][/\ (result'.op = "store_response" /\ result'.out = Killed)
            => (/\ DataKey(result'.arg) \in DOMAIN DbMap'
                /\ TimeKey(result'.arg) \in DOMAIN DbMap'
                      <=> TimeKey(result'.arg) \in DOMAIN DbMap)
       /\ (/\ result'.op = "retrieve_response"
           /\ <<self.db.name, result'.arg>> \in ses.torn
           /\ result'.arg \notin ses.lifetime)
            => result'.out = None]_vars

\* a later run retrieved None for a never-stored fingerprint whose payload
\* an interrupted store left in the database file
C12_Witness ==
    /\ Retrieved
    /\ <<self.db.name, result.arg>> \in ses.torn
    /\ result.arg \notin ses.lifetime
    /\ DataKey(result.arg) \in DOMAIN DbMap
    /\ result.out = None

\* C13: retrieve_response looks for the timestamp key first: when it is
\* absent the call returns None whatever is under the payload key (nothing,
\* a payload that unpickles, a payload that does not), so the payload is
\* read only once the timestamp was found.
C13_MarkerFirst ==
    (Retrieved /\ TimeKey(result.arg) \notin DOMAIN DbMap)
        => result.out = None

\* None was returned over a payload that does not unpickle
C13_Witness ==
    /\ Retrieved
    /\ TimeKey(result.arg) \notin DOMAIN DbMap
    /\ DataKey(result.arg) \in DOMAIN DbMap
    /\ ~PickleOk(DbMap[DataKey(result.arg)])
    /\ result.out = None

\* C14: when close_spider has finished on a session whose database was
\* opened, the database handle has been closed exactly once, whatever the
\* database holds and however close_spider ended; when open_spider failed
\* before the database was opened, close_spider closes no database.
C14_HandleClosedOnce ==
    /\ (Closed /\ ses.opened = "ok") => ses.dbCloses = 1
    /\ (Closed /\ ses.opened = "failed") => ses.dbCloses = 0

\* C15: a failing download makes open_spider raise after one call to the
\* client and leaves the object without a database; a failing upload makes
\* close_spider raise after one call to the client; a session issues at
\* most one download, and one close_spider at most one upload.
C15_NoRetry ==
    [][/\ ses'.downloads <= 1
       /\ result'.op = "close_spider" => ses'.uploads <= ses.uploads + 1
       /\ (result'.op = "open_spider" /\ result'.out = Raise("ClientError"))
            => (ses'.downloads = 1 /\ self'.db = None)
       /\ (/\ result'.op = "close_spider"
           /\ result'.out = Raise("S3UploadFailedError"))
            => ses'.uploads = ses.uploads + 1]_vars

\* close_spider raised on a failed upload in a session that had downloaded
\* its snapshot
C15_Witness ==
    /\ Closed
    /\ result.out = Raise("S3UploadFailedError")
    /\ ses.closeCalls = 1
    /\ ses.uploads = 1
    /\ ses.downloads = 1

C17_OpenModes ==
    [][(self.cls = "s3" /\ result'.op = "open_spider")
        => /\ TempName \notin DOMAIN fs
           /\ TempName \in DOMAIN fs'
           /\ ses'.staged = ses.staged + 1
           /\ (self.retrieve_mode /\ result'.out = None)
                => (/\ ses'.downloads = 1
                    /\ DownloadSource(self) \in DOMAIN s3
                    /\ s3[DownloadSource(self)].isdb
                    /\ fs'[TempName] = s3[DownloadSource(self)]
                    /\ self'.db = DbHandle(TempName))
           /\ (/\ self.retrieve_mode
               /\ ~NetlocPathRaises(self.snapshot_uri)
               /\ DownloadSource(self) \in DOMAIN s3
               /\ ~s3[DownloadSource(self)].isdb)
                => (result'.out.kind = "raise" /\ self'.db = None)
           /\ ~self.retrieve_mode
                => (/\ result'.out = None
                    /\ ses'.downloads = 0
                    /\ fs'[TempName] = EmptyDb
                    /\ self'.db = DbHandle(TempName))]_vars

\* a session was opened on the snapshot an earlier session uploaded
C17_Witness ==
    /\ Opened
    /\ self.cls = "s3"
    /\ self.retrieve_mode
    /\ result.out = None
    /\ prev # None
    /\ DbMap # <<>>
    /\ DbMap = s3[DownloadSource(self)].map

\* what store_response files under the payload key for a response
Payload(response) ==
    pickle_dumps([status |-> response.status,
                  url |-> response.url,
                  headers |-> dict(response.headers),
                  body |-> gzip_compress(response.body)])

\* C18: when close_spider of an S3 session with snapshot_mode on has
\* returned, the database was closed, the staging file flushed, uploaded
\* and closed: the database handle and the staging file are closed, the
\* object in the bucket is the staged file as it was at close, and it holds
\* the payload and the timestamp of every response stored in the session.
C18_CloseUploadsAll ==
    (/\ self.cls = "s3"
     /\ self.snapshot_mode
     /\ Closed
     /\ result.out = None
     /\ ses.opened = "ok"
     /\ ses.closeCalls = 1)
        => /\ self.db.closed
           /\ self.path_to_local_file.closed
           /\ s3[UploadTarget(self)] = fs[self.path_to_local_file.name]
           /\ \A f \in Fingerprints :
                 ses.stored[f] # <<>>
                    => LET blob == s3[UploadTarget(self)].map
                       IN /\ TimeKey(f) \in DOMAIN blob
                          /\ DataKey(f) \in DOMAIN blob
                          /\ blob[DataKey(f)] =
                                Payload(ses.stored[f][Len(ses.stored[f])])

MarkerHasPayload(m) ==
    \A f \in Fingerprints :
        TimeKey(f) \in DOMAIN m => DataKey(f) \in DOMAIN m

\* C19: in every database file and in every object of the bucket a
\* timestamp key is accompanied by its payload key: between the two writes
\* of a store, after a store over an existing fingerprint, and in a store
\* hydrated from an earlier upload; so retrieve_response never raises
\* KeyError for a missing payload.
C19_PayloadBeforeMarker ==
    /\ \A x \in DOMAIN fs : MarkerHasPayload(fs[x].map)
    /\ \A o \in DOMAIN s3 : MarkerHasPayload(s3[o].map)
    /\ Retrieved => result.out # Raise("KeyError")

\* the process was killed between the two writes of a store on a database
\* that already holds another fingerprint
C19_Witness ==
    /\ result.op = "store_response"
    /\ result.out = Killed
    /\ DataKey(result.arg) \in DOMAIN DbMap
    /\ TimeKey(result.arg) \notin DOMAIN DbMap
    /\ \E f \in Fingerprints : TimeKey(f) \in DOMAIN DbMap

\* the keys store_response files for the fingerprints stored in the session
StoredKeys ==
    UNION { {DataKey(f), TimeKey(f)} :
                f \in { g \in Fingerprints : ses.stored[g] # <<>> } }

\* C20: a close_spider that uploads, at the end of a session opened with
\* retrieve_mode on, leaves every record the object held before and the
\* session did not store again in the object, unchanged; at the end of a
\* session opened with retrieve_mode off it leaves in the object the
\* records stored in the session and nothing else.
C20_AccumulateOrReplace ==
    [][(/\ result'.op = "close_spider"
        /\ result'.out = None
        /\ Snapshots(self)
        /\ ses.opened = "ok")
        => LET new == s3'[UploadTarget(self)].map
           IN /\ self.retrieve_mode
                 => LET old == s3[UploadTarget(self)].map
                    IN \A f \in Fingerprints :
                         (TimeKey(f) \in DOMAIN old /\ ses.stored[f] = <<>>)
                            => /\ TimeKey(f) \in DOMAIN new
                               /\ DataKey(f) \in DOMAIN new
                               /\ new[TimeKey(f)] = old[TimeKey(f)]
                               /\ new[DataKey(f)] = old[DataKey(f)]
              /\ ~self.retrieve_mode
                 => /\ DOMAIN new = StoredKeys
                    /\ \A f \in Fingerprints :
                          ses.stored[f] # <<>>
                             => new[DataKey(f)] =
                                  Payload(ses.stored[f][Len(ses.stored[f])])
          ]_vars

\* after the upload of a session with both flags on, the object holds a
\* record the session stored and a record it only downloaded
C20_Witness ==
    /\ Closed
    /\ result.out = None
    /\ self.cls = "s3"
    /\ self.retrieve_mode
    /\ self.snapshot_mode
    /\ ses.uploaded # None
    /\ \E f, g \in Fingerprints :
          /\ ses.stored[f] = <<>>
          /\ ses.stored[g] # <<>>
          /\ TimeKey(f) \in DOMAIN s3[UploadTarget(self)].map
          /\ TimeKey(g) \in DOMAIN s3[UploadTarget(self)].map

====
